---- MODULE Spec2Model ----
(***************************************************************************)
(* Model of server.py: the Flask relay in front of the Ollama runtime.     *)
(*                                                                         *)
(*   - schedule_warmup() and its module-level flag (server.py 39-47,       *)
(*     169-174);                                                           *)
(*   - generate(): validation and defaulting of the inbound payload, the   *)
(*     outbound request, and the generator stream_response() that relays   *)
(*     the runtime's answer (server.py 55-116);                            *)
(*   - _discover_models() and warm_up_models(), the body of the warm-up    *)
(*     thread (server.py 119-166);                                         *)
(*   - gui.py: add_task, delete_task, load_tasks, start_agent, stop_agent  *)
(*     of ControlPanel, and AIAgent of agent.py.                           *)
(*                                                                         *)
(* Specifications: Spec (the relay serving requests), SpecRace             *)
(* (schedule_warmup line by line, several callers), SpecDisconnect (the    *)
(* relay with callers that go away), SpecHistory (requests compared with   *)
(* an earlier one), SpecWarmup (the warm-up thread in every environment),  *)
(* SpecLive (the relay under a runtime that does not stay silent),         *)
(* SpecConcurrent (the warm-up thread beside requests), and SpecGui (the   *)
(* task list and the agents of gui.py's control panel, with agent.py).     *)
(*                                                                         *)
(* JSON values are records [t, n, s]: t is the Python type of the decoded  *)
(* value, n its number (a float is held in tenths), s its characters.      *)
(***************************************************************************)
EXTENDS Integers, Sequences, FiniteSets, TLC

\* ------------------------------------------------------------------ bounds

\* Upstream lines the runtime may emit on one streamed response.
MaxLines == 3
\* Callers of schedule_warmup(): the module-level call, the first-request
\* hook, and direct calls.
NumCallers == 3
\* Elements of the list in agents.json.
MaxEntries == 2
\* The largest id add_task gives a task.
MaxTaskId == 3

\* --------------------------------------------------------- JSON values

Val(t, n, s) == [t |-> t, n |-> n, s |-> s]

\* dict.get(key) of a key that is not there (Python None, like JSON null,
\* but `key in payload` tells them apart).
Absent == Val("absent", 0, <<>>)
Null == Val("null", 0, <<>>)
BoolV(b) == Val("bool", IF b THEN 1 ELSE 0, <<>>)
IntV(n) == Val("int", n, <<>>)
\* A finite float, in tenths: FloatV(25) is 2.5.
FloatV(tenths) == Val("float", tenths, <<>>)
Inf == Val("inf", 0, <<>>)
NaN == Val("nan", 0, <<>>)
StrV(s) == Val("str", 0, s)
\* A list with n elements.
ListV(n) == Val("list", n, <<>>)
\* A dict with n keys.
DictV(n) == Val("dict", n, <<>>)

\* Python truth value of a decoded JSON value (None is false).
Truthy(v) ==
    CASE v.t \in {"absent", "null"} -> FALSE
      [] v.t \in {"bool", "int", "float", "list", "dict"} -> v.n # 0
      [] v.t \in {"inf", "nan"} -> TRUE
      [] v.t = "str" -> Len(v.s) > 0
      [] OTHER -> TRUE

\* Python `a or b`.
PyOr(a, b) == IF Truthy(a) THEN a ELSE b

Whitespace == {" ", "\t", "\n"}

RECURSIVE LStrip(_)
LStrip(s) ==
    IF s # <<>> /\ Head(s) \in Whitespace THEN LStrip(Tail(s)) ELSE s

RECURSIVE RStrip(_)
RStrip(s) ==
    IF s # <<>> /\ s[Len(s)] \in Whitespace
    THEN RStrip(SubSeq(s, 1, Len(s) - 1))
    ELSE s

\* str.strip()
Strip(s) == RStrip(LStrip(s))

Digits == {"0", "1", "2", "3", "4", "5", "6", "7", "8", "9"}

DigitVal(c) ==
    CASE c = "0" -> 0 [] c = "1" -> 1 [] c = "2" -> 2 [] c = "3" -> 3
      [] c = "4" -> 4 [] c = "5" -> 5 [] c = "6" -> 6 [] c = "7" -> 7
      [] c = "8" -> 8 [] c = "9" -> 9

RECURSIVE DigitsVal(_)
DigitsVal(s) ==
    IF s = <<>> THEN 0
    ELSE 10 * DigitsVal(SubSeq(s, 1, Len(s) - 1)) + DigitVal(s[Len(s)])

AllDigits(s) == s # <<>> /\ \A i \in 1..Len(s) : s[i] \in Digits

\* The outcome of a Python call: a value n, or the exception raised.
Ok(n) == [exc |-> "", n |-> n]
Raise(e) == [exc |-> e, n |-> 0]

\* int(<str>): surrounding whitespace is dropped, one sign is allowed, the
\* rest must be decimal digits.
IntOfStr(s) ==
    LET b == Strip(s)
        signed == b # <<>> /\ Head(b) \in {"-", "+"}
        d == IF signed THEN Tail(b) ELSE b
    IN  IF ~AllDigits(d) THEN Raise("ValueError")
        ELSE IF signed /\ Head(b) = "-" THEN Ok(-DigitsVal(d))
        ELSE Ok(DigitsVal(d))

\* Truncation toward zero of a number held in tenths.
TruncTenths(n) == IF n >= 0 THEN n \div 10 ELSE -((-n) \div 10)

\* Python int(v) of a decoded JSON value.
PyInt(v) ==
    CASE v.t \in {"int", "bool"} -> Ok(v.n)
      [] v.t = "float" -> Ok(TruncTenths(v.n))
      [] v.t = "inf" -> Raise("OverflowError")
      [] v.t = "nan" -> Raise("ValueError")
      [] v.t = "str" -> IntOfStr(v.s)
      [] OTHER -> Raise("TypeError")

\* Python bool(v).
PyBool(v) == Truthy(v)

\* ------------------------------------------------- configuration (14-16)

DEFAULT_KEEP_ALIVE == StrV(<<"5", "m">>)
DEFAULT_MODEL == StrV(<<"l", "l", "a", "m", "a", "3">>)
\* The built-in value of OLLAMA_DEFAULT_NUM_PREDICT.
DEFAULT_NUM_PREDICT == 512
\* What int(os.getenv("OLLAMA_DEFAULT_NUM_PREDICT", "512")) may be in a process.
ConfiguredNumPredict == {DEFAULT_NUM_PREDICT, 0}

\* ------------------------------------------------------ inbound payloads

Optional == {"system", "context", "options", "format", "template"}

NoOptions == [k \in Optional |-> Absent]

\* What request.get_json(silent=True) returns:
\*   "none"    None: no body, a body that is not JSON, a wrong content type;
\*   "falsy"   a JSON value that is no object and false in Python ([], 0, "");
\*   "nonobj"  a JSON value that is no object and true in Python ([1], "x", 5);
\*   "object"  a JSON object with the fields below.
Payload(body, prompt, model, keep_alive, num_predict, stream, opts) ==
    [body |-> body, prompt |-> prompt, model |-> model,
     keep_alive |-> keep_alive, num_predict |-> num_predict,
     stream |-> stream, opts |-> opts]

PromptValues ==
    {Absent, Null, IntV(0), IntV(5), ListV(1),
     StrV(<<>>), StrV(<<" ">>), StrV(<<"\t", "\n">>),
     StrV(<<"h", "i">>), StrV(<<" ", "h", "i", "\n">>), StrV(<<"a", " ", "b">>)}

NumPredictValues ==
    {Absent, Null, IntV(-1), IntV(0), IntV(1), IntV(7),
     StrV(<<"7">>), StrV(<<" ", "1", "2">>), StrV(<<"-", "3">>),
     StrV(<<"a", "b", "c">>), StrV(<<"2", ".", "5">>), StrV(<<>>),
     FloatV(25), FloatV(-5), Inf, NaN, BoolV(TRUE), ListV(1), DictV(0)}

StreamValues == {Absent, Null, BoolV(TRUE), BoolV(FALSE), StrV(<<"n", "o">>)}

ModelValues == {Absent, StrV(<<>>), StrV(<<"m">>)}

KeepAliveValues == {Absent, IntV(0), StrV(<<"1", "h">>)}

OptionValues == {Null, StrV(<<"x">>), DictV(1)}

\* Payloads with more than one optional field: all five, and a mixture of
\* given, null and missing ones.
SeveralOptions ==
    {[k \in Optional |-> v] : v \in OptionValues}
    \cup
    {[NoOptions EXCEPT !["system"] = StrV(<<"x">>), !["options"] = DictV(1),
                       !["format"] = Null]}

\* The payloads a caller may send: every prompt with every num_predict and
\* stream; and around a valid prompt, every model, keep_alive and optional
\* field; and the bodies that are no JSON object.
Payloads ==
    {Payload("object", p, Absent, Absent, n, s, NoOptions) :
        p \in PromptValues, n \in NumPredictValues, s \in StreamValues}
    \cup
    {Payload("object", StrV(<<"h", "i">>), m, k, Absent, s, NoOptions) :
        m \in ModelValues, k \in KeepAliveValues, s \in {Absent, BoolV(FALSE)}}
    \cup
    {Payload("object", StrV(<<"h", "i">>), Absent, Absent, Absent, Absent,
             [NoOptions EXCEPT ![o] = v]) : o \in Optional, v \in OptionValues}
    \cup
    {Payload("object", StrV(<<"h", "i">>), Absent, Absent, Absent, Absent, os) :
        os \in SeveralOptions}
    \cup
    {Payload(b, Absent, Absent, Absent, Absent, Absent, NoOptions) :
        b \in {"none", "falsy", "nonobj"}}

NoPayload == Payload("unset", Absent, Absent, Absent, Absent, Absent, NoOptions)

\* ------------------------------------------------- generate (55-84)

\* payload.get(k) on what line 57 leaves in `payload`: None and the false
\* non-objects are replaced by {} there.
Get(p, k) == IF p.body = "object" THEN p[k] ELSE Absent

\* Lines 69-70.
EffectiveNumPredictStrict(n, dflt) == IF n < 0 THEN dflt ELSE n
EffectiveNumPredict(n, dflt) == IF n <= 0 THEN dflt ELSE n

\* Lines 64-66: int(num_predict_raw), or the default when it is None.
ParseNumPredict(raw, dflt) ==
    IF raw.t \in {"absent", "null"} THEN Ok(dflt) ELSE PyInt(raw)

\* Line 67: the exceptions the handler turns into a 400.
Caught == {"TypeError", "ValueError"}

\* Line 71.
StreamFlag(p) ==
    IF Get(p, "stream").t = "absent" THEN TRUE ELSE PyBool(Get(p, "stream"))

\* Lines 73-83: the outbound request.
OllamaRequest(prompt, model, keep_alive, num_predict, stream, opts) ==
    [prompt |-> prompt, model |-> model, keep_alive |-> keep_alive,
     num_predict |-> num_predict, stream |-> stream, opts |-> opts]

NoRequest == OllamaRequest(<<>>, Absent, Absent, 0, FALSE, NoOptions)

\* Lines 81-83: an optional field is copied when the payload has the key.
OptionsOfTruthy(p) ==
    [k \in Optional |->
        IF p.body = "object" /\ Truthy(p.opts[k]) THEN p.opts[k] ELSE Absent]
OptionsOf(p) ==
    [k \in Optional |-> IF p.body = "object" THEN p.opts[k] ELSE Absent]

\* What generate() comes to before the response body is produced.
Reject(msg) == [kind |-> "reject", status |-> 400, error |-> msg, req |-> NoRequest]
Crash(exc) == [kind |-> "crash", status |-> 500, error |-> exc, req |-> NoRequest]
Accept(r) == [kind |-> "accept", status |-> 200, error |-> "", req |-> r]

\* Lines 58-60: a blank prompt is refused.
PromptRefusedNever(prompt) == FALSE
PromptRefused(prompt) == prompt = <<>>

\* Lines 57-84.
Generate(p, dflt) ==
    IF p.body = "nonobj" THEN Crash("AttributeError")
    ELSE
    LET pv == PyOr(Get(p, "prompt"), StrV(<<>>)) IN
    IF pv.t # "str" THEN Crash("AttributeError")
    ELSE
    LET prompt == Strip(pv.s)
        model == PyOr(Get(p, "model"), DEFAULT_MODEL)
        keep_alive == PyOr(Get(p, "keep_alive"), DEFAULT_KEEP_ALIVE)
        parsed == ParseNumPredict(Get(p, "num_predict"), dflt)
    IN  IF PromptRefused(prompt) THEN Reject("prompt is required")
        ELSE IF parsed.exc \in Caught THEN Reject("num_predict must be an integer")
        ELSE IF parsed.exc # "" THEN Crash(parsed.exc)
        ELSE Accept(OllamaRequest(prompt, model, keep_alive,
                                  EffectiveNumPredict(parsed.n, dflt),
                                  StreamFlag(p),
                                  OptionsOf(p)))

\* --------------------------------------- stream_response (86-113)

\* One line of the runtime's streamed body, as iter_lines yields it:
\*   "blank"   the empty string;
\*   "space"   a line of white space only (a true value for line 101);
\*   "obj"     a JSON object, its "done" member absent, false or true;
\*   "bad"     text json.loads refuses;
\*   "nonobj"  JSON that is no object (a list, a number, a string).
Line(t, done) == [t |-> t, done |-> done]
NoLine == Line("none", "absent")

LineKinds ==
    {Line("blank", "absent"), Line("space", "absent"), Line("obj", "absent"),
     Line("obj", "false"), Line("obj", "true"), Line("bad", "absent"),
     Line("nonobj", "absent")}

\* The body of a non-streamed answer, as the runtime sent it:
\*   "rawjson"   JSON text in UTF-8;
\*   "rawtext"   UTF-8 text that is no JSON;
\*   "rawbytes"  bytes that are no text in the encoding requests decodes the
\*               body with (the charset of the Content-Type, UTF-8 for JSON).
RawBodies ==
    {Line("rawjson", "absent"), Line("rawtext", "absent"), Line("rawbytes", "absent")}

\* Line 97: resp.text is str(resp.content, encoding, errors="replace"): bytes
\* the encoding does not have come out as U+FFFD. Flask writes the text back
\* as UTF-8, which gives UTF-8 text its own bytes.
RespText(b) == IF b.t = "rawbytes" THEN Line("replaced", "absent") ELSE b

\* A decoded message: t is "dict" for a Python dict, "value" for any other
\* decoded JSON value, "text" for text that was never decoded.
Message(t, error, body, done) == [t |-> t, error |-> error, body |-> body, done |-> done]

\* Line 104: json.loads of a line json accepts.
Decoded(l) == Message(IF l.t = "obj" THEN "dict" ELSE "value", "", l, l.done)

\* Line 106: the object that stands for a line json.loads refused.
InvalidJson(l) == Message("dict", "invalid json from ollama", l, "absent")

\* Lines 103-106.
MessageOf(l) == IF l.t \in {"bad", "space"} THEN InvalidJson(l) ELSE Decoded(l)

\* Lines 112 and 60, 68: {"error": <text>}.
ErrorObject(text) == Message("dict", text, NoLine, "absent")

\* Line 97: the raw body, as text.
RawText(b) == Message("text", "", b, "absent")

\* What the caller receives: the message written (json.dumps keeps the JSON
\* value), and the number of the upstream line it was made from (0: none).
Chunk(m, src) == [msg |-> m, src |-> src]

\* Lines 97, 107, 113: a yield hands the next chunk to the caller.
YieldFirst(o, c) == <<c>> \o o
YieldOnlyLast(o, c) == <<c>>
Yield(o, c) == Append(o, c)

\* Line 108: message.get("done"); only a dict has get.
DoneNever(m) == Ok(0)
DoneOf(m) ==
    IF m.t # "dict" THEN Raise("AttributeError")
    ELSE Ok(IF m.done = "true" THEN 1 ELSE 0)

\* Line 101: `if not raw_line: continue`.
SkippedNever(l) == FALSE
Skipped(l) == l.t = "blank"

\* Lines 88-94: how the call to the runtime may fail before a body is relayed:
\* requests.post raises (no connection, timeout), raise_for_status raises.
ConnectFailures == {"ConnectionError", "Timeout", "HTTPError"}
\* iter_lines raising in the middle of the body.
StreamFailure == "ChunkedEncodingError"

\* --------------------------------------- _discover_models (119-140)

\* OLLAMA_WARM_MODELS: not set, or its text.
EnvVar(set, s) == [set |-> set, s |-> s]
NotSet == EnvVar(FALSE, <<>>)

EnvValues ==
    {NotSet,
     EnvVar(TRUE, <<>>),
     EnvVar(TRUE, <<"a">>),
     EnvVar(TRUE, <<"a", ",", "b">>),
     EnvVar(TRUE, <<" ", "a", " ", ",", " ", ",", "b">>),
     EnvVar(TRUE, <<",">>),
     EnvVar(TRUE, <<" ">>)}

\* One element of the list in agents.json: a dict with its "model" member
\* (Absent: no such key), or a value that is no dict.
Entry(dict, model) == [dict |-> dict, model |-> model]

EntryKinds ==
    {Entry(TRUE, StrV(<<"c">>)), Entry(TRUE, StrV(<<"a">>)), Entry(TRUE, StrV(<<>>)),
     Entry(TRUE, IntV(5)), Entry(TRUE, Absent), Entry(FALSE, Absent)}

\* agents.json:
\*   "missing"      no such file;
\*   "undecodable"  bytes that are no UTF-8 text;
\*   "unparsable"   text json.load refuses (the empty file is one);
\*   "nonlist"      JSON that is no list;
\*   "list"         a JSON list, its elements in `entries`.
Registry(kind, entries) == [kind |-> kind, entries |-> entries]

Registries ==
    {Registry(k, <<>>) : k \in {"missing", "undecodable", "unparsable", "nonlist"}}
    \cup
    {Registry("list", es) : es \in UNION {[1..n -> EntryKinds] : n \in 0..MaxEntries}}

\* str.split(",")
RECURSIVE SplitComma(_)
SplitComma(s) ==
    IF \A i \in 1..Len(s) : s[i] # ","
    THEN <<s>>
    ELSE LET i == CHOOSE j \in 1..Len(s) :
                    s[j] = "," /\ \A k \in 1..(j - 1) : s[k] # ","
         IN  <<SubSeq(s, 1, i - 1)>> \o SplitComma(SubSeq(s, i + 1, Len(s)))

\* Lines 121-123: the models named by the environment.
EnvModelsUntrimmed(env) ==
    IF env.set /\ env.s # <<>>
    THEN LET items == SplitComma(env.s)
         IN  {items[i] : i \in {j \in 1..Len(items) : Strip(items[j]) # <<>>}}
    ELSE {}
EnvModels(env) ==
    IF env.set /\ env.s # <<>>
    THEN LET items == SplitComma(env.s)
         IN  {Strip(items[i]) : i \in {j \in 1..Len(items) : Strip(items[j]) # <<>>}}
    ELSE {}

\* Lines 131-134: the model an element of the list gives, if any.
Usable(e) == e.dict /\ e.model.t = "str" /\ e.model.s # <<>>

\* Lines 129-134: the models named by the decoded registry.
RegistryModels(reg) ==
    IF reg.kind = "list"
    THEN {reg.entries[i].model.s : i \in {j \in 1..Len(reg.entries) : Usable(reg.entries[j])}}
    ELSE {}

\* Lines 125-136: reading the registry. json.load raises JSONDecodeError on
\* text that is no JSON, and UnicodeDecodeError (from the read of a file
\* opened as UTF-8) on bytes that are no text; line 135 catches the first.
LoadRegistry(reg) ==
    CASE reg.kind = "undecodable" -> Raise("UnicodeDecodeError")
      [] reg.kind = "unparsable" -> Raise("JSONDecodeError")
      [] OTHER -> Ok(0)

DiscoverCaught == {"JSONDecodeError"}

\* Lines 138-139.
WithDefault(models) == IF models = {} THEN {DEFAULT_MODEL.s} ELSE models

\* What _discover_models() comes to: the set returned, or the exception
\* that leaves it.
Discovered(exc, models) == [exc |-> exc, models |-> models]

\* Lines 119-140.
DiscoverModels(env, reg) ==
    LET loading == LoadRegistry(reg)
    IN  IF loading.exc # "" /\ loading.exc \notin DiscoverCaught
        THEN Discovered(loading.exc, {})
        ELSE Discovered("", WithDefault(EnvModels(env) \cup RegistryModels(reg)))

\* ------------------------------------------ gui.py: tasks and agents

\* gui.py 664: the agents of a panel with no agents.json.
AgentNames == {"Researcher-1", "Researcher-2"}

\* gui.py 26-39: a task, as far as the panel's operations on ids, agents and
\* statuses go.
Task(id, agent, status) == [id |-> id, agent |-> agent, status |-> status]

\* An operation of the panel, and the agent it was done for.
Op(kind, name) == [kind |-> kind, name |-> name]

Ids(ts) == {ts[i].id : i \in 1..Len(ts)}

Max(S) == CHOOSE m \in S : \A n \in S : n <= m

\* tasks.json: missing, not loadable (no JSON, or an item Task(**item)
\* refuses), or a list of tasks with distinct ids, in any order.
TaskFile(kind, items) == [kind |-> kind, items |-> items]

TaskFiles ==
    {TaskFile("missing", <<>>), TaskFile("unparsable", <<>>), TaskFile("list", <<>>),
     TaskFile("list", <<Task(2, "Researcher-1", "Pending")>>),
     TaskFile("list", <<Task(3, "Researcher-2", "Stopped"),
                        Task(1, "Researcher-1", "In Progress")>>),
     TaskFile("list", <<Task(1, "Researcher-2", "Pending"),
                        Task(2, "Researcher-1", "Pending")>>)}

\* gui.py 672-686: the list load_tasks leaves.
LoadedTasks(file) == IF file.kind = "list" THEN file.items ELSE <<>>

\* gui.py 92, 682-683: the counter after load_tasks.
CounterAfterLoad(ts) == IF ts # <<>> THEN Max(Ids(ts)) + 1 ELSE 1

\* gui.py 863: the counter after add_task.
CounterKept(c) == c
CounterAfterAdd(c) == c + 1

\* gui.py 966: the tasks that stay when those with an id in ids are deleted.
RECURSIVE Without(_, _)
Without(ts, ids) ==
    IF ts = <<>> THEN <<>>
    ELSE IF Head(ts).id \in ids THEN Without(Tail(ts), ids)
    ELSE <<Head(ts)>> \o Without(Tail(ts), ids)

\* gui.py 936-939: what start_agent makes of a task.
StartedAnyAgent(t, name) ==
    IF t.status = "Pending" THEN [t EXCEPT !.status = "In Progress"] ELSE t
Started(t, name) ==
    IF t.agent = name /\ t.status = "Pending"
    THEN [t EXCEPT !.status = "In Progress"] ELSE t

\* gui.py 950-953: what stop_agent makes of a task.
Stopped(t, name) ==
    IF t.agent = name /\ t.status = "In Progress"
    THEN [t EXCEPT !.status = "Stopped"] ELSE t

\* ------------------------------------------------------------------ state

VARIABLES
    default_num_predict, \* DEFAULT_NUM_PREDICT of this process (line 16)
    loaded,              \* the module body has run to its end (line 174)
    got_first_request,   \* Flask has run the before_first_request hooks
    warmup_started,      \* _warmup_started (line 39)
    threads,             \* warm-up threads started so far (line 47)
    cpc,                 \* where each caller of schedule_warmup() stands
    call_order,          \* the callers, in the order they entered
    overlapped,          \* two callers have been inside schedule_warmup() at once
    setters,             \* the callers that executed line 46
    starters,            \* the callers that executed line 47
    rpc,                 \* where the request being served stands
    payload,             \* the decoded body, while generate() runs
    req,                 \* ollama_request (73-83)
    status,              \* the HTTP status of the response (0: none yet)
    out,                 \* the chunks written to the caller
    lines,               \* the lines read from the runtime
    calls,               \* outbound calls made for this request
    fault,               \* the RequestException the outbound call raised ("": none)
    answer,              \* the body of the runtime's non-streamed answer
    client,              \* the caller's connection: "connected" or "gone"
    warm_env,            \* OLLAMA_WARM_MODELS (line 121)
    registry,            \* agents.json (line 125)
    wpc,                 \* where the warm-up thread stands
    models,              \* warm_up_models: models (line 144)
    pending,             \* the models the loop of line 148 has not reached yet
    warm_log,            \* the warm-up calls made, with how each one ended
    warm_calls,          \* the number of warm-up calls made
    wexc,                \* the exception that ended the warm-up thread ("": none)
    memo,                \* a remembered moment of an earlier request (history variable)
    tasks,               \* gui.py: ControlPanel.tasks (line 91)
    task_counter,        \* gui.py: ControlPanel._task_counter (line 92)
    running,             \* gui.py: AIAgent.running of each agent of ControlPanel.agents
    deleted,             \* the ids of the tasks deleted so far (history variable)
    last_op,             \* the last of start/stop done to each agent (history variable)
    op                   \* the operation the panel did last (history variable)

warmup_vars == <<warmup_started, threads>>
caller_vars == <<cpc, call_order, overlapped, setters, starters>>
proc_vars == <<default_num_predict, loaded, got_first_request>>
relay_vars == <<rpc, payload, req, status, out, lines, calls, fault, answer, client>>
thread_vars == <<warm_env, registry, wpc, models, pending, warm_log, warm_calls, wexc>>
gui_vars == <<tasks, task_counter, running, deleted, last_op, op>>
server_vars == <<proc_vars, warmup_vars, caller_vars, relay_vars, thread_vars, memo>>
vars == <<server_vars, gui_vars>>

Callers == 1..NumCallers

\* A moment of a request, as the caller and the runtime see it: what was
\* sent in, what the runtime did, and what the relay made of it. `over`
\* tells that the request it was taken from has ended since.
Moment(p, r, ls, f, a, st, o, at, over) ==
    [payload |-> p, req |-> r, lines |-> ls, fault |-> f, answer |-> a,
     status |-> st, out |-> o, rpc |-> at, over |-> over]

NoMemo == Moment(NoPayload, NoRequest, <<>>, "", NoLine, 0, <<>>, "idle", FALSE)

\* ------------------------------------------- schedule_warmup (42-47)

\* Line 44: `if _warmup_started: return`.
GuardReturnsNever(started) == FALSE
GuardReturns(started) == started

\* Line 46: the value written to the flag.
FlagWritten == TRUE

\* A caller enters the function.
Call(c) ==
    /\ cpc[c] = "idle"
    /\ cpc' = [cpc EXCEPT ![c] = "l44"]
    /\ call_order' = Append(call_order, c)
    /\ overlapped' = (overlapped \/ \E d \in Callers : cpc[d] \in {"l44", "l46", "l47"})
    /\ UNCHANGED <<proc_vars, relay_vars, thread_vars, warmup_vars,
                   setters, starters, memo, gui_vars>>

\* Line 44-45: read the flag, return if it is set.
CheckFlag(c) ==
    /\ cpc[c] = "l44"
    /\ cpc' = [cpc EXCEPT ![c] = IF GuardReturns(warmup_started) THEN "returned" ELSE "l46"]
    /\ UNCHANGED <<proc_vars, relay_vars, thread_vars, warmup_vars,
                   call_order, overlapped, setters, starters, memo, gui_vars>>

\* Line 46: set the flag.
SetFlag(c) ==
    /\ cpc[c] = "l46"
    /\ warmup_started' = FlagWritten
    /\ setters' = setters \cup {c}
    /\ cpc' = [cpc EXCEPT ![c] = "l47"]
    /\ UNCHANGED <<proc_vars, relay_vars, thread_vars, threads,
                   call_order, overlapped, starters, memo, gui_vars>>

\* Line 47: start the daemon thread that runs warm_up_models.
StartThread(c) ==
    /\ cpc[c] = "l47"
    /\ threads' = threads + 1
    /\ starters' = starters \cup {c}
    /\ cpc' = [cpc EXCEPT ![c] = "returned"]
    /\ UNCHANGED <<proc_vars, relay_vars, thread_vars, warmup_started,
                   call_order, overlapped, setters, memo, gui_vars>>

\* The state after lines 14-39 of the module body.
InitProcess ==
    /\ default_num_predict \in ConfiguredNumPredict
    /\ loaded = FALSE
    /\ got_first_request = FALSE
    /\ warmup_started = FALSE
    /\ threads = 0
    /\ cpc = [c \in Callers |-> "idle"]
    /\ call_order = <<>>
    /\ overlapped = FALSE
    /\ setters = {}
    /\ starters = {}
    /\ rpc = "idle"
    /\ payload = NoPayload
    /\ req = NoRequest
    /\ status = 0
    /\ out = <<>>
    /\ lines = <<>>
    /\ calls = 0
    /\ fault = ""
    /\ answer = NoLine
    /\ client = "connected"
    /\ wpc = "start"
    /\ models = {}
    /\ pending = {}
    /\ warm_log = {}
    /\ warm_calls = 0
    /\ wexc = ""
    /\ memo = NoMemo

\* The control panel is not open.
NoPanel ==
    /\ tasks = <<>>
    /\ task_counter = 1
    /\ running = [a \in AgentNames |-> FALSE]
    /\ deleted = {}
    /\ last_op = [a \in AgentNames |-> "none"]
    /\ op = Op("none", "")

\* A process with no OLLAMA_WARM_MODELS and no agents.json.
Init ==
    /\ InitProcess
    /\ NoPanel
    /\ warm_env = NotSet
    /\ registry = Registry("missing", <<>>)

\* NumCallers threads run schedule_warmup(), each line a step of its own.
NextRace ==
    \E c \in Callers : Call(c) \/ CheckFlag(c) \/ SetFlag(c) \/ StartThread(c)

SpecRace == Init /\ [][NextRace]_vars

\* ------------------------------------------------------------ the relay

\* schedule_warmup() run from its first line to its return with no other
\* caller in between.
ScheduleWarmup ==
    /\ warmup_started' = IF GuardReturns(warmup_started) THEN warmup_started ELSE FlagWritten
    /\ threads' = IF GuardReturns(warmup_started) THEN threads ELSE threads + 1

\* Line 174: the call at the end of the module body.
ModuleLoad ==
    /\ ~loaded
    /\ loaded' = TRUE
    /\ ScheduleWarmup
    /\ UNCHANGED <<default_num_predict, got_first_request, caller_vars, relay_vars, thread_vars, memo, gui_vars>>

\* Lines 55-84 in this process: generate() reads the payload and the
\* configuration, and nothing an earlier request left behind.
HandleFirstDiffers(p) ==
    IF got_first_request THEN Generate(p, default_num_predict)
    ELSE Crash("RuntimeError")
HandleSeesWarmup(p) ==
    IF wexc # "" THEN Crash(wexc) ELSE Generate(p, default_num_predict)
Handle(p) == Generate(p, default_num_predict)

\* A request arrives. Lines 169-171: Flask runs _trigger_warmup before the
\* first request it serves. Then generate() runs to line 116 (or to a 400,
\* or to an exception): the body of an accepted request is produced later,
\* by the generator.
Receive(p) ==
    /\ loaded
    /\ rpc = "idle"
    /\ got_first_request' = TRUE
    /\ IF got_first_request THEN UNCHANGED warmup_vars ELSE ScheduleWarmup
    /\ LET r == Handle(p)
       IN  /\ payload' = p
           /\ req' = r.req
           /\ status' = r.status
           /\ out' = IF r.kind = "reject" THEN <<Chunk(ErrorObject(r.error), 0)>> ELSE <<>>
           /\ rpc' = CASE r.kind = "reject" -> "rejected"
                       [] r.kind = "crash" -> "crashed"
                       [] OTHER -> "await_connect"
    /\ UNCHANGED <<default_num_predict, loaded, caller_vars, thread_vars, lines, calls, fault,
                   answer, client, memo, gui_vars>>

\* Lines 110-113: what the generator does with a RequestException.
OnRequestExceptionSilent(exc) == <<>>
OnRequestException(exc) == Yield(<<>>, Chunk(ErrorObject(exc), 0))

\* Lines 88-94 fail: requests.post or raise_for_status raises.
PostFails(exc) ==
    /\ rpc = "await_connect"
    /\ calls' = calls + 1
    /\ payload' = NoPayload
    /\ fault' = exc
    /\ out' = out \o OnRequestException(exc)
    /\ rpc' = "error_emitted"
    /\ UNCHANGED <<proc_vars, warmup_vars, caller_vars, thread_vars, req, status, lines,
                   answer, client, memo, gui_vars>>

\* Lines 88-98 with stream false: the whole body is there when post returns.
PostBuffered(b) ==
    /\ rpc = "await_connect"
    /\ ~req.stream
    /\ calls' = calls + 1
    /\ payload' = NoPayload
    /\ answer' = b
    /\ out' = Yield(out, Chunk(RawText(RespText(b)), 0))
    /\ rpc' = "closed"
    /\ UNCHANGED <<proc_vars, warmup_vars, caller_vars, thread_vars, req, status, lines, fault,
                   client, memo, gui_vars>>

\* Lines 88-94 with stream true: the runtime answered 2xx, the body follows.
PostStreams ==
    /\ rpc = "await_connect"
    /\ req.stream
    /\ calls' = calls + 1
    /\ payload' = NoPayload
    /\ rpc' = "streaming"
    /\ UNCHANGED <<proc_vars, warmup_vars, caller_vars, thread_vars, req, status, out, lines, fault,
                   answer, client, memo, gui_vars>>

\* Lines 100-109: one turn of the loop on the line the runtime sent. The
\* server that iterates the response (line 116) learns that the caller is
\* gone when it writes to it: it then closes the generator, which leaves the
\* `with` of line 88 at the yield and so closes the connection to the runtime.
ReadLine(l) ==
    /\ rpc = "streaming"
    /\ Len(lines) < MaxLines
    /\ lines' = Append(lines, l)
    /\ IF Skipped(l)
       THEN UNCHANGED <<out, rpc>>
       ELSE IF client = "gone"
       THEN /\ rpc' = "abandoned"
            /\ UNCHANGED out
       ELSE LET m == MessageOf(l)
                d == DoneOf(m)
            IN  /\ out' = Yield(out, Chunk(m, Len(lines) + 1))
                /\ rpc' = IF d.exc # "" THEN "aborted"
                          ELSE IF d.n # 0 THEN "done"
                          ELSE "streaming"
    /\ UNCHANGED <<proc_vars, warmup_vars, caller_vars, thread_vars, payload, req, status, calls,
                   fault, answer, client, memo, gui_vars>>

\* Line 100: iter_lines ends, the runtime closed the body.
UpstreamCloses ==
    /\ rpc = "streaming"
    /\ rpc' = "eos"
    /\ UNCHANGED <<proc_vars, warmup_vars, caller_vars, thread_vars, payload, req, status, out,
                   lines, calls, fault, answer, client, memo, gui_vars>>

\* Line 100: iter_lines raises, the connection was lost.
UpstreamDrops ==
    /\ rpc = "streaming"
    /\ fault' = StreamFailure
    /\ IF client = "gone"
       THEN rpc' = "abandoned" /\ UNCHANGED out
       ELSE /\ out' = out \o OnRequestException(StreamFailure)
            /\ rpc' = "error_emitted"
    /\ UNCHANGED <<proc_vars, warmup_vars, caller_vars, thread_vars, payload, req, status,
                   lines, calls, answer, client, memo, gui_vars>>

\* The caller closes its connection while the body is being relayed. Nothing
\* in the generator runs on this event.
CallerDisconnects ==
    /\ rpc = "streaming"
    /\ client = "connected"
    /\ client' = "gone"
    /\ UNCHANGED <<proc_vars, warmup_vars, caller_vars, thread_vars, rpc, payload, req, status,
                   out, lines, calls, fault, answer, memo, gui_vars>>

\* The states in which the response is over.
Terminal ==
    {"rejected", "crashed", "error_emitted", "closed", "done", "eos", "aborted",
     "abandoned"}

\* The response is over; the process waits for the next request.
Finish ==
    /\ rpc \in Terminal
    /\ rpc' = "idle"
    /\ payload' = NoPayload
    /\ req' = NoRequest
    /\ status' = 0
    /\ out' = <<>>
    /\ lines' = <<>>
    /\ calls' = 0
    /\ fault' = ""
    /\ answer' = NoLine
    /\ client' = "connected"
    /\ UNCHANGED <<proc_vars, warmup_vars, caller_vars, thread_vars, memo, gui_vars>>

Next ==
    \/ ModuleLoad
    \/ \E p \in Payloads : Receive(p)
    \/ \E exc \in ConnectFailures : PostFails(exc)
    \/ \E b \in RawBodies : PostBuffered(b)
    \/ PostStreams
    \/ \E l \in LineKinds : ReadLine(l)
    \/ UpstreamCloses
    \/ UpstreamDrops
    \/ Finish

Spec == Init /\ [][Next]_vars

\* The relay in front of a runtime that does not stay silent for ever on a
\* streamed body: it sends a line, closes the body, or fails.
SpecLive ==
    /\ Spec
    /\ WF_vars((\E l \in LineKinds : ReadLine(l)) \/ UpstreamCloses \/ UpstreamDrops)

\* The relay with callers that may go away in the middle of a response.
NextDisconnect == Next \/ CallerDisconnects

SpecDisconnect == Init /\ [][NextDisconnect]_vars

\* ----------------------------------------- requests, one after another

\* The payloads and upstream lines of the runs that compare requests.
HistoryPayloads ==
    {p \in Payloads :
        /\ p.prompt \in {Absent, StrV(<<" ">>), StrV(<<"h", "i">>)}
        /\ p.num_predict \in {Absent, IntV(0), StrV(<<"a", "b", "c">>)}
        /\ p.stream \in {Absent, BoolV(FALSE)}
        /\ p.model = Absent /\ p.keep_alive = Absent /\ p.opts = NoOptions}

HistoryLines == {Line("blank", "absent"), Line("obj", "false"), Line("obj", "true")}

\* The moment the request being served is at.
Now == Moment(payload, req, lines, fault, answer, status, out, rpc, FALSE)

\* History variable: a moment of a request is remembered, once.
Remember ==
    /\ rpc # "idle"
    /\ memo = NoMemo
    /\ memo' = Now
    /\ UNCHANGED <<proc_vars, warmup_vars, caller_vars, relay_vars, thread_vars,
                   gui_vars>>

\* History variable: the request of the remembered moment has ended.
RememberedOver ==
    /\ rpc = "idle"
    /\ memo # NoMemo
    /\ ~memo.over
    /\ memo' = [memo EXCEPT !.over = TRUE]
    /\ UNCHANGED <<proc_vars, warmup_vars, caller_vars, relay_vars, thread_vars,
                   gui_vars>>

NextHistory ==
    \/ ModuleLoad
    \/ \E p \in HistoryPayloads : Receive(p)
    \/ \E exc \in ConnectFailures : PostFails(exc)
    \/ \E b \in RawBodies : PostBuffered(b)
    \/ PostStreams
    \/ \E l \in HistoryLines : ReadLine(l)
    \/ UpstreamCloses
    \/ UpstreamDrops
    \/ Finish
    \/ Remember
    \/ RememberedOver

\* The relay serving requests one after another, a moment of one of them
\* remembered for the later ones to be compared with.
SpecHistory == Init /\ [][NextHistory]_vars

\* ------------------------------------------ warm_up_models (143-166)

\* Lines 151-159: the request that warms model m.
WarmRequest(m) ==
    OllamaRequest(<<"p", "i", "n", "g">>, StrV(m), DEFAULT_KEEP_ALIVE, 5, FALSE,
                  NoOptions)

\* How one warm-up call ends: well, or with a RequestException.
WarmOutcomes == {"ok"} \cup ConnectFailures

WarmCall(m, outcome) == [req |-> WarmRequest(m), outcome |-> outcome]

\* Lines 148-166: the models left to warm after the call for m ended; the
\* `except` of line 163 logs and lets the loop go on.
LeftAfterAbortOnFailure(left, m, outcome) ==
    IF outcome = "ok" THEN left \ {m} ELSE {}
LeftAfter(left, m, outcome) == left \ {m}

\* Lines 144-146: the thread started by line 47 discovers the models.
Discover ==
    /\ threads > 0
    /\ wpc = "start"
    /\ LET d == DiscoverModels(warm_env, registry)
       IN  IF d.exc # ""
           THEN /\ wpc' = "died"
                /\ wexc' = d.exc
                /\ UNCHANGED <<models, pending>>
           ELSE /\ models' = d.models
                /\ pending' = d.models
                /\ wpc' = IF d.models = {} THEN "ended" ELSE "warming"
                /\ UNCHANGED wexc
    /\ UNCHANGED <<proc_vars, warmup_vars, caller_vars, relay_vars, warm_env, registry,
                   warm_log, warm_calls, memo, gui_vars>>

\* Lines 148-166: one turn of the loop, for a model the loop has not reached
\* (a set is iterated in no particular order).
WarmOne(m, outcome) ==
    /\ wpc = "warming"
    /\ m \in pending
    /\ warm_calls' = warm_calls + 1
    /\ warm_log' = warm_log \cup {WarmCall(m, outcome)}
    /\ pending' = LeftAfter(pending, m, outcome)
    /\ UNCHANGED <<proc_vars, warmup_vars, caller_vars, relay_vars, warm_env, registry,
                   wpc, models, wexc, memo, gui_vars>>

\* Line 148: the loop is over, warm_up_models() returns.
WarmEnd ==
    /\ wpc = "warming"
    /\ pending = {}
    /\ wpc' = "ended"
    /\ UNCHANGED <<proc_vars, warmup_vars, caller_vars, relay_vars, warm_env, registry,
                   models, pending, warm_log, warm_calls, wexc, memo, gui_vars>>

\* A process in any environment, with any registry.
InitWarmup ==
    /\ InitProcess
    /\ NoPanel
    /\ warm_env \in EnvValues
    /\ registry \in Registries

NextWarmup ==
    \/ ModuleLoad
    \/ Discover
    \/ \E m \in pending, outcome \in WarmOutcomes : WarmOne(m, outcome)
    \/ WarmEnd

\* The module is loaded and the warm-up thread runs to its end.
SpecWarmup == InitWarmup /\ [][NextWarmup]_vars

\* ----------------------------------------- gui.py: the control panel

\* gui.py 831-867: add_task with a title and a role given, for agent a. The
\* ids the model runs to are bounded by MaxTaskId.
AddTask(a) ==
    /\ task_counter <= MaxTaskId
    /\ tasks' = Append(tasks, Task(task_counter, a, "Pending"))
    /\ task_counter' = CounterAfterAdd(task_counter)
    /\ op' = Op("add", a)
    /\ UNCHANGED <<server_vars, running, deleted, last_op>>

\* gui.py 959-969: delete_task with the rows of ids selected and the
\* question answered with yes.
DeleteTask(ids) ==
    /\ ids # {}
    /\ ids \subseteq Ids(tasks)
    /\ tasks' = Without(tasks, ids)
    /\ deleted' = deleted \cup ids
    /\ op' = Op("delete", "")
    /\ UNCHANGED <<server_vars, task_counter, running, last_op>>

\* gui.py 931-943 and agent.py 9-11: start_agent with name selected.
StartAgent(name) ==
    /\ running' = [running EXCEPT ![name] = TRUE]
    /\ tasks' = [i \in 1..Len(tasks) |-> Started(tasks[i], name)]
    /\ last_op' = [last_op EXCEPT ![name] = "start"]
    /\ op' = Op("start", name)
    /\ UNCHANGED <<server_vars, task_counter, deleted>>

\* gui.py 945-957 and agent.py 13-15: stop_agent with name selected.
StopAgent(name) ==
    /\ running' = [running EXCEPT ![name] = FALSE]
    /\ tasks' = [i \in 1..Len(tasks) |-> Stopped(tasks[i], name)]
    /\ last_op' = [last_op EXCEPT ![name] = "stop"]
    /\ op' = Op("stop", name)
    /\ UNCHANGED <<server_vars, task_counter, deleted>>

\* gui.py 84-124: the panel after construction, for every tasks.json and
\* every running flag agents.json may hold.
InitGui ==
    /\ InitProcess
    /\ default_num_predict = DEFAULT_NUM_PREDICT
    /\ warm_env = NotSet
    /\ registry = Registry("missing", <<>>)
    /\ \E file \in TaskFiles :
        /\ tasks = LoadedTasks(file)
        /\ task_counter = CounterAfterLoad(LoadedTasks(file))
    /\ running \in [AgentNames -> BOOLEAN]
    /\ deleted = {}
    /\ last_op = [a \in AgentNames |-> "none"]
    /\ op = Op("none", "")

NextGui ==
    \/ \E a \in AgentNames : AddTask(a)
    \/ \E ids \in SUBSET Ids(tasks) : DeleteTask(ids)
    \/ \E name \in AgentNames : StartAgent(name)
    \/ \E name \in AgentNames : StopAgent(name)

SpecGui == InitGui /\ [][NextGui]_vars

\* ---------------------------------------------------------------- claims

Returned == {c \in Callers : cpc[c] = "returned"}

\* C1: when the invocations of schedule_warmup() follow one another (module
\* load, first-request hook, direct calls, in any order, none overlapping
\* another), then after N >= 1 of them exactly one warm-up thread has been
\* started, and only the first invocation wrote the flag or started a thread:
\* every later one changed no state.
C1_SequentialIdempotent ==
    ~overlapped =>
        /\ threads <= 1
        /\ (Returned # {} => threads = 1 /\ warmup_started)
        /\ \A c \in setters \cup starters : c = call_order[1]
        /\ threads = Cardinality(starters)

C1_Witness ==
    /\ ~overlapped
    /\ Returned = Callers
    /\ threads = 1

\* C2: when two or more threads invoke schedule_warmup() concurrently, at
\* most one warm-up thread is ever started, in every interleaving of their
\* reads and writes of the flag.
C2_AtMostOneThread == threads <= 1

\* The numbers of the lines read so far that are not blank, in order.
NonBlank == {i \in 1..Len(lines) : lines[i].t # "blank"}

\* The i-th forwarded chunk is the JSON object of upstream line k, unchanged.
ForwardsObject(i, k) ==
    /\ out[i].src = k
    /\ out[i].msg.t = "dict"
    /\ out[i].msg.error = ""
    /\ out[i].msg.body = lines[k]
    /\ out[i].msg.done = lines[k].done

\* C3: the upstream emits non-blank lines L1..Ln, each a JSON object, with
\* "done" true on no line before Ln, and does not fail: the caller has
\* received exactly one chunk per line, chunk i the object of Li, in the
\* order received, and the response is closed (state "done") exactly when
\* the last line read has "done" true.
C3_StreamingOrder ==
    (/\ rpc \in {"streaming", "done", "eos"}
     /\ \A i \in 1..Len(lines) : lines[i].t = "obj"
     /\ \A i \in 1..(Len(lines) - 1) : lines[i].done # "true")
    =>
        /\ Len(out) = Len(lines)
        /\ \A i \in 1..Len(lines) : ForwardsObject(i, i)
        /\ (rpc = "done") <=> (lines # <<>> /\ lines[Len(lines)].done = "true")
        /\ calls = 1

C3_Witness ==
    /\ rpc = "done"
    /\ lines = <<Line("obj", "absent"), Line("obj", "false"), Line("obj", "true")>>
    /\ Len(out) = 3

\* C4: whenever a line Lk of a streamed body does not decode as a JSON
\* object (text json refuses, or JSON that is no object), the caller gets,
\* for Lk, an error object carrying the raw text of Lk, and the stream is
\* not aborted: forwarding goes on with the lines after Lk.
C4_MalformedLineResilience ==
    \A k \in 1..Len(lines) :
        lines[k].t \in {"bad", "nonobj"} =>
            /\ \E i \in 1..Len(out) :
                /\ out[i].src = k
                /\ out[i].msg.t = "dict"
                /\ out[i].msg.error = "invalid json from ollama"
                /\ out[i].msg.body = lines[k]
            /\ rpc # "aborted"

\* The part of C4 the code keeps: a line json.loads refuses.
C4_UndecodableLineResilience ==
    \A k \in 1..Len(lines) :
        lines[k].t = "bad" =>
            /\ \E i \in 1..Len(out) :
                /\ out[i].src = k
                /\ out[i].msg.t = "dict"
                /\ out[i].msg.error = "invalid json from ollama"
                /\ out[i].msg.body = lines[k]
            /\ (k = Len(lines) /\ fault = "" => rpc \in {"streaming", "eos"})

\* A line number whose line was forwarded as a JSON object (decoded, or the
\* error object standing for an undecodable line).
ObjectForwarded(k) == lines[k].t \in {"obj", "bad", "space"}

\* A step from "done" or "error_emitted" leaves the response as it is, or is
\* the process turning to its next request.
ClosedStaysClosed ==
    rpc \in {"done", "error_emitted"} =>
        \/ rpc' = rpc /\ out' = out /\ lines' = lines /\ calls' = calls
        \/ rpc' = "idle" /\ out' = <<>> /\ lines' = <<>> /\ calls' = 0

\* C5: forwarding stops at the first chunk whose "done" is true: that chunk
\* is the last one written and its line the last one read (state "done"); a
\* forwarded object whose "done" is absent or false never stops forwarding;
\* and once the state is "done" or "error_emitted" nothing more is read from
\* the runtime or written to the caller, and no further call is made.
C5_StopsAtDone ==
    /\ [](/\ \A k \in 1..Len(lines) :
                lines[k] = Line("obj", "true") =>
                    /\ k = Len(lines)
                    /\ rpc = "done"
                    /\ out # <<>>
                    /\ ForwardsObject(Len(out), k)
          /\ rpc = "done" => lines # <<>> /\ lines[Len(lines)] = Line("obj", "true")
          /\ (/\ lines # <<>>
              /\ ObjectForwarded(Len(lines))
              /\ lines[Len(lines)].done # "true") => rpc \notin {"done", "aborted"})
    /\ [][ClosedStaysClosed]_vars

\* "done" reached with room for more lines within MaxLines, after a chunk
\* whose "done" is false.
C5_Witness ==
    /\ rpc = "done"
    /\ Len(lines) < MaxLines
    /\ Len(out) = 2
    /\ lines[1] = Line("obj", "false")

\* C6: when the call to the runtime fails before any body is relayed
\* (connection refused, timeout, non-2xx status), in streaming and in
\* non-streaming mode, the response body is exactly one object
\* {error: <message>}, nothing was read from the runtime or forwarded, the
\* response is over, and exactly one outbound call was made.
C6_ConnectFailureOneError ==
    fault \in ConnectFailures =>
        /\ out = <<Chunk(ErrorObject(fault), 0)>>
        /\ lines = <<>>
        /\ rpc = "error_emitted"
        /\ calls = 1
        /\ status = 200

C6_Witness ==
    /\ fault = "HTTPError"
    /\ ~req.stream
    /\ Len(out) = 1

\* A step taken after the connection was lost leaves the response as it is,
\* or is the process turning to its next request.
DroppedStaysClosed ==
    fault = StreamFailure =>
        \/ UNCHANGED <<rpc, out, lines, calls, fault>>
        \/ rpc' = "idle" /\ out' = <<>> /\ lines' = <<>> /\ fault' = ""

\* What the caller holds once the connection was lost in mid-stream.
DropLeavesChunksThenError ==
    fault = StreamFailure =>
        LET k == Cardinality(NonBlank) IN
        /\ rpc = "error_emitted"
        /\ Len(out) = k + 1
        /\ out[k + 1] = Chunk(ErrorObject(StreamFailure), 0)
        /\ \A i \in 1..k :
            /\ out[i].src \in NonBlank
            /\ out[i].msg.body = lines[out[i].src]
            /\ Cardinality({j \in NonBlank : j <= out[i].src}) = i
        /\ \A j \in 1..Len(lines) : lines[j].done # "true"
        /\ calls = 1

\* C7: when the connection to the runtime is lost in mid-stream, after k >= 0
\* chunks were forwarded and before any chunk with "done" true, the caller has
\* those k chunks, one per non-blank line read and in the order read, followed
\* by exactly one error object; the response is then over and nothing more is
\* read or written.
C7_MidStreamDrop ==
    /\ []DropLeavesChunksThenError
    /\ [][DroppedStaysClosed]_vars

C7_Witness ==
    /\ fault = StreamFailure
    /\ Len(out) = 3
    /\ Len(lines) = 3
    /\ lines[2].t = "blank"

\* The payload has no prompt, or a null, empty or whitespace-only one; a body
\* that is missing, not JSON, or no JSON object has no prompt.
PromptMissingOrBlank(p) ==
    \/ p.body \in {"none", "falsy", "nonobj"}
    \/ /\ p.body = "object"
       /\ \/ p.prompt.t \in {"absent", "null"}
          \/ p.prompt.t = "str" /\ \A i \in 1..Len(p.prompt.s) : p.prompt.s[i] \in Whitespace

\* The payload is a JSON object whose prompt is a string with a character
\* that is not whitespace.
PromptGiven(p) ==
    /\ p.body = "object"
    /\ p.prompt.t = "str"
    /\ \E i \in 1..Len(p.prompt.s) : p.prompt.s[i] \notin Whitespace

RejectedWith(msg) ==
    /\ rpc = "rejected"
    /\ status = 400
    /\ out = <<Chunk(ErrorObject(msg), 0)>>
    /\ calls = 0

\* C8: every request whose prompt is missing, null, empty or whitespace-only
\* (a missing body and a body that is no JSON object included) is answered
\* 400 with {error: "prompt is required"}, whatever its other fields hold.
C8_BlankPromptRejected ==
    (payload # NoPayload /\ PromptMissingOrBlank(payload)) =>
        RejectedWith("prompt is required")

\* The part of C8 the code keeps: no body, a body that is not JSON, a JSON
\* object, or a JSON value that is false in Python.
C8_BlankPromptRejectedUnlessTruthyNonObject ==
    (payload # NoPayload /\ PromptMissingOrBlank(payload) /\ payload.body # "nonobj") =>
        RejectedWith("prompt is required")

\* A num_predict that is present and is no integer: infinity (1e999), NaN, a
\* list, an object, or a string that is no integer literal.
NotAnInteger(v) ==
    \/ v.t \in {"inf", "nan", "list", "dict"}
    \/ v \in {StrV(<<"a", "b", "c">>), StrV(<<"2", ".", "5">>), StrV(<<>>)}

\* C9: every request with a non-blank prompt whose num_predict is present
\* but cannot be parsed as an integer is answered 400 with
\* {error: "num_predict must be an integer"}.
C9_NonIntegerRejected ==
    (payload # NoPayload /\ PromptGiven(payload) /\ NotAnInteger(payload.num_predict)) =>
        RejectedWith("num_predict must be an integer")

\* The part of C9 the code keeps: every such value but infinity.
C9_NonIntegerRejectedUnlessInfinite ==
    (/\ payload # NoPayload
     /\ PromptGiven(payload)
     /\ NotAnInteger(payload.num_predict)
     /\ payload.num_predict # Inf) =>
        RejectedWith("num_predict must be an integer")

\* The num_predict values int() gives an integer for, and that integer.
HasInteger(v) ==
    \/ v.t \in {"int", "bool", "float"}
    \/ v \in {StrV(<<"7">>), StrV(<<" ", "1", "2">>), StrV(<<"-", "3">>)}

IntegerOf(v) ==
    CASE v.t = "int" -> v.n
      [] v = BoolV(TRUE) -> 1
      [] v = BoolV(FALSE) -> 0
      [] v = FloatV(25) -> 2
      [] v = FloatV(-5) -> 0
      [] v = StrV(<<"7">>) -> 7
      [] v = StrV(<<" ", "1", "2">>) -> 12
      [] v = StrV(<<"-", "3">>) -> -3

AcceptedWith(n) ==
    /\ rpc = "await_connect"
    /\ status = 200
    /\ out = <<>>
    /\ req.num_predict = n

\* C10: a request with a non-blank prompt whose num_predict is omitted, or
\* parses to an integer <= 0, is accepted and the num_predict sent upstream is
\* the configured default; when num_predict parses to an integer > 0, that
\* integer is sent.
C10_NumPredictDefaulting ==
    (payload # NoPayload /\ PromptGiven(payload)) =>
        LET v == payload.num_predict IN
        /\ v = Absent => AcceptedWith(default_num_predict)
        /\ (HasInteger(v) /\ IntegerOf(v) <= 0) => AcceptedWith(default_num_predict)
        /\ (HasInteger(v) /\ IntegerOf(v) > 0) => AcceptedWith(IntegerOf(v))

C10_Witness ==
    /\ payload # NoPayload
    /\ PromptGiven(payload)
    /\ payload.num_predict = StrV(<<"-", "3">>)
    /\ default_num_predict = DEFAULT_NUM_PREDICT
    /\ req.num_predict = DEFAULT_NUM_PREDICT
    /\ rpc = "await_connect"

\* C11: validation fails fast. While a request stands answered with 400 (blank
\* prompt, or num_predict that is no integer) no call to the runtime has been
\* made for it and none is made afterwards; and a call to the runtime is only
\* ever made for a request that passed validation: status 200, prompt not
\* empty after trimming.
NoCallAfterRejection == status = 400 => calls' = 0

C11_ValidationFailsFast ==
    /\ [](status = 400 => rpc = "rejected" /\ calls = 0 /\ req = NoRequest)
    /\ [](calls > 0 => status = 200 /\ req # NoRequest /\ req.prompt # <<>>)
    /\ [][NoCallAfterRejection]_vars

C11_Witness ==
    /\ status = 400
    /\ out = <<Chunk(ErrorObject("num_predict must be an integer"), 0)>>
    /\ payload.num_predict = StrV(<<"a", "b", "c">>)
    /\ calls = 0

\* C12: each of system, context, options, format, template is in the outbound
\* request exactly when the inbound payload has it, with the payload's value
\* unchanged (a given null stays null); a field the payload lacks is absent
\* from the outbound request, never sent as null; and the request handed to
\* the runtime is the one that was built.
RequestKeptToCall == rpc = "await_connect" /\ calls' > calls => req' = req

OptionalPassedThrough ==
    rpc = "await_connect" =>
        \A k \in Optional :
            /\ (req.opts[k] # Absent) <=> (payload.opts[k] # Absent)
            /\ req.opts[k] = payload.opts[k]
            /\ payload.opts[k] = Absent => req.opts[k] # Null

C12_OptionalPassthrough ==
    []OptionalPassedThrough /\ [][RequestKeptToCall]_vars

C12_Witness ==
    /\ rpc = "await_connect"
    /\ payload.opts["system"] = StrV(<<"x">>)
    /\ payload.opts["format"] = Null
    /\ payload.opts["context"] = Absent
    /\ req.opts["format"] = Null
    /\ req.opts["context"] = Absent

\* C13: a valid request with stream false, answered by the runtime with
\* success: one outbound call was made, the status is 200, and the response
\* body is one unit, the very body the runtime sent, unchanged.
C13_NonStreamingPassthrough ==
    rpc = "closed" =>
        /\ calls = 1
        /\ status = 200
        /\ lines = <<>>
        /\ out = <<Chunk(RawText(answer), 0)>>

\* The part of C13 the code keeps: a body that is UTF-8 text, JSON or not.
C13_TextPassthrough ==
    rpc = "closed" /\ answer.t \in {"rawjson", "rawtext"} =>
        /\ calls = 1
        /\ status = 200
        /\ lines = <<>>
        /\ out = <<Chunk(RawText(answer), 0)>>

\* C17: once the caller has disconnected from a streaming response, no
\* further line is read from the runtime.
NoReadAfterDisconnect == client = "gone" /\ rpc = "streaming" => lines' = lines

C17_NoReadAfterDisconnect == [][NoReadAfterDisconnect]_vars

\* The part of C17 the code keeps: nothing is forwarded after the disconnect,
\* and the first line read that is not skipped ends the relaying, the
\* connection to the runtime closed.
AbandonedAtNextChunk ==
    client = "gone" /\ rpc = "streaming" =>
        /\ out' = out \/ rpc' = "idle"
        /\ (lines' # lines /\ ~Skipped(lines'[Len(lines')])) => rpc' = "abandoned"

C17_AbandonedAtNextChunk == [][AbandonedAtNextChunk]_vars

\* Blank in the wide sense: empty, or white space only.
Blank(l) == l.t \in {"blank", "space"}

\* The streamed body is being relayed or was relayed to its end, no failure.
Relaying == rpc \in {"streaming", "done", "eos", "aborted"}

\* C19: in streaming mode every blank upstream line, empty or of white space
\* only, is skipped: no chunk is forwarded for it, it does not end the
\* stream, and the number of chunks forwarded is the number of non-blank
\* lines read.
C19_BlankLinesSkipped ==
    Relaying =>
        /\ \A k \in 1..Len(lines) :
            Blank(lines[k]) =>
                /\ \A i \in 1..Len(out) : out[i].src # k
                /\ k = Len(lines) => rpc \in {"streaming", "eos"}
        /\ Len(out) = Cardinality({k \in 1..Len(lines) : ~Blank(lines[k])})

\* C19, amended: every empty upstream line is skipped: no chunk is forwarded
\* for it, it does not end the stream, and the number of chunks forwarded is
\* the number of non-empty lines read; a line of white space only is not
\* skipped, it is forwarded as the error object of an undecodable line.
C19_EmptyLinesSkipped ==
    Relaying =>
        /\ \A k \in 1..Len(lines) :
            /\ lines[k].t = "blank" =>
                /\ \A i \in 1..Len(out) : out[i].src # k
                /\ k = Len(lines) => rpc \in {"streaming", "eos"}
            /\ lines[k].t = "space" =>
                \E i \in 1..Len(out) :
                    /\ out[i].src = k
                    /\ out[i].msg = InvalidJson(lines[k])
        /\ Len(out) = Cardinality(NonBlank)
        /\ \A i \in 1..Len(out) : out[i].src \in NonBlank

C19_Witness ==
    /\ rpc = "done"
    /\ lines = <<Line("obj", "false"), Line("blank", "absent"), Line("obj", "true")>>
    /\ Len(out) = 2

\* The models the environment names, by value of OLLAMA_WARM_MODELS.
EnvNamed(env) ==
    CASE env = EnvVar(TRUE, <<"a">>) -> {<<"a">>}
      [] env = EnvVar(TRUE, <<"a", ",", "b">>) -> {<<"a">>, <<"b">>}
      [] env = EnvVar(TRUE, <<" ", "a", " ", ",", " ", ",", "b">>) -> {<<"a">>, <<"b">>}
      [] OTHER -> {}

\* The models the registry names: the "model" of each element that is a
\* dict with a non-empty string there.
RegistryNamed(reg) ==
    {e.model.s : e \in {reg.entries[i] : i \in 1..Len(reg.entries)}
                          \cap {Entry(TRUE, StrV(<<"c">>)), Entry(TRUE, StrV(<<"a">>))}}

\* _discover_models() has returned.
DiscoveryReturned == wpc \in {"warming", "ended"}

\* C14: for every environment override and every registry (missing, empty,
\* unparsable, without usable elements, or naming models),
\* _discover_models() returns, the set it returns is not empty, and when
\* neither source names a model the set is exactly {DEFAULT_MODEL}.
C14_DiscoveryNonEmpty ==
    wpc # "start" =>
        /\ DiscoveryReturned
        /\ models # {}
        /\ (EnvNamed(warm_env) = {} /\ RegistryNamed(registry) = {}
                => models = {DEFAULT_MODEL.s})

\* The part of C14 the code keeps: whenever _discover_models() returns.
C14_ReturnedNonEmpty ==
    DiscoveryReturned =>
        /\ models # {}
        /\ (EnvNamed(warm_env) = {} /\ RegistryNamed(registry) = {}
                => models = {DEFAULT_MODEL.s})

\* C15: the set _discover_models() returns is exactly the union of the
\* trimmed non-empty items of the comma-separated override and the "model"
\* values of the registry elements that are dicts with a non-empty string
\* there; other elements add nothing, and the default is in the set only
\* when the union is empty.
C15_DiscoveryUnion ==
    DiscoveryReturned =>
        LET union == EnvNamed(warm_env) \cup RegistryNamed(registry)
        IN  /\ union # {} => models = union
            /\ union = {} => models = {DEFAULT_MODEL.s}

C15_Witness ==
    /\ DiscoveryReturned
    /\ warm_env = EnvVar(TRUE, <<"a", ",", "b">>)
    /\ registry = Registry("list", <<Entry(TRUE, StrV(<<"c">>)), Entry(TRUE, Absent)>>)
    /\ models = {<<"a">>, <<"b">>, <<"c">>}

\* The models whose warm-up call was made.
Warmed == {c.req.model.s : c \in warm_log}

\* C16: the warm-up pass makes exactly one call, not streamed, for every
\* model of the discovered set: whichever calls fail, each failure is caught,
\* the calls for the models left are still made, and the pass ends with no
\* exception leaving it.
C16_WarmupEveryModel ==
    DiscoveryReturned =>
        /\ wexc = ""
        /\ Warmed = models \ pending
        /\ warm_calls = Cardinality(models \ pending)
        /\ \A c \in warm_log :
            /\ ~c.req.stream
            /\ c.req.prompt = <<"p", "i", "n", "g">>
            /\ c.req.model.t = "str"
        /\ wpc = "ended" =>
            /\ pending = {}
            /\ Warmed = models
            /\ warm_calls = Cardinality(models)

\* The pass over three models ended, two of the calls having failed.
C16_Witness ==
    /\ wpc = "ended"
    /\ Cardinality(models) = 3
    /\ Cardinality({c \in warm_log : c.outcome # "ok"}) = 2
    /\ Cardinality({c \in warm_log : c.outcome = "ok"}) = 1

\* The models _discover_models() had collected before it opened the registry,
\* or the default when there are none.
FromEnvOrDefault == IF EnvNamed(warm_env) = {} THEN {DEFAULT_MODEL.s} ELSE EnvNamed(warm_env)

\* C20: when the registry file exists and fails to parse (text that is no
\* JSON, bytes that are no text), _discover_models() does not raise: it
\* returns the models collected from the environment override, or the
\* default alone when there are none.
C20_ParseFailureTolerated ==
    wpc # "start" /\ registry.kind \in {"unparsable", "undecodable"} =>
        /\ DiscoveryReturned
        /\ wexc = ""
        /\ models = FromEnvOrDefault

\* The part of C20 the code keeps: text that json.load refuses.
C20_JsonErrorTolerated ==
    wpc # "start" /\ registry.kind = "unparsable" =>
        /\ DiscoveryReturned
        /\ wexc = ""
        /\ models = FromEnvOrDefault

\* The request being served has the payload of the remembered, earlier one.
SamePayload == memo.over /\ payload # NoPayload /\ payload = memo.payload

\* The request being served has sent the runtime the request of the
\* remembered, earlier one, and the runtime has behaved as it did then.
SameUpstream ==
    /\ memo.over
    /\ rpc # "idle"
    /\ payload = NoPayload /\ memo.payload = NoPayload
    /\ req = memo.req
    /\ lines = memo.lines
    /\ fault = memo.fault
    /\ answer = memo.answer
    /\ (rpc = "eos") <=> (memo.rpc = "eos")

\* A step of a request changes nothing of the process but the warm-up state
\* (the flag, the thread it started, Flask's mark of the first request).
RequestChangesOnlyWarmup ==
    rpc # "idle" \/ rpc' # "idle" =>
        UNCHANGED <<default_num_predict, loaded, caller_vars, thread_vars>>

\* Nothing of a request is left when it is over.
NothingLeft ==
    rpc = "idle" =>
        /\ payload = NoPayload /\ req = NoRequest /\ status = 0 /\ out = <<>>
        /\ lines = <<>> /\ calls = 0 /\ fault = "" /\ answer = NoLine

C21_OutboundWellFormed ==
    calls > 0 =>
        /\ Strip(req.prompt) # <<>>
        /\ req.num_predict \in Nat
        /\ req.num_predict > 0

\* The part of C21 the code keeps: the prompt always, and num_predict in a
\* process whose configured default is positive.
C21_WellFormedUnderPositiveDefault ==
    calls > 0 =>
        /\ Strip(req.prompt) # <<>>
        /\ req.prompt = Strip(req.prompt)
        /\ req.num_predict \in Int
        /\ default_num_predict > 0 => req.num_predict > 0

\* C22: every streaming response ends in a well-formed way: the relay is
\* relaying, or has come to "done", "error_emitted" or the end of the
\* stream, and has made exactly one call to the runtime for the request.
C22_StreamingEndsWellFormed ==
    calls > 0 /\ req.stream =>
        /\ calls = 1
        /\ rpc \in {"streaming", "done", "error_emitted", "eos"}

\* The part of C22 the code keeps: exactly one call is made, and a streamed
\* body does not go on for ever: once the runtime has sent its "done",
\* closed or failed, the relaying is over (well-formed or, after a line that
\* is JSON but no object, broken off), and with object lines only it is
\* never broken off.
C22_StreamingTerminates ==
    /\ [](calls <= 1)
    /\ [](calls > 0 /\ req.stream /\ (\A i \in 1..Len(lines) : lines[i].t # "nonobj")
            => rpc \in {"streaming", "done", "error_emitted", "eos"})
    /\ (rpc = "streaming") ~> (rpc \in {"done", "error_emitted", "eos", "aborted"})

\* ------------------------- the warm-up thread beside a request (42-47, 143-174)

\* Environments of the runs with both: the default alone to warm, three
\* models to warm, and a registry that ends the thread with an exception.
ConcurrentEnvironments ==
    {<<NotSet, Registry("missing", <<>>)>>,
     <<EnvVar(TRUE, <<"a", ",", "b">>), Registry("list", <<Entry(TRUE, StrV(<<"c">>))>>)>>,
     <<EnvVar(TRUE, <<"a">>), Registry("undecodable", <<>>)>>}

ConcurrentLines == {Line("obj", "false"), Line("obj", "true")}

InitConcurrent ==
    /\ InitProcess
    /\ NoPanel
    /\ \E e \in ConcurrentEnvironments : warm_env = e[1] /\ registry = e[2]

\* The thread started by line 47 is a thread of its own: its steps and the
\* steps of a request come in any order.
NextConcurrent ==
    \/ ModuleLoad
    \/ \E p \in HistoryPayloads : Receive(p)
    \/ \E exc \in ConnectFailures : PostFails(exc)
    \/ \E b \in RawBodies : PostBuffered(b)
    \/ PostStreams
    \/ \E l \in ConcurrentLines : ReadLine(l)
    \/ UpstreamCloses
    \/ UpstreamDrops
    \/ Finish
    \/ Discover
    \/ \E m \in pending, outcome \in WarmOutcomes : WarmOne(m, outcome)
    \/ WarmEnd

SpecConcurrent == InitConcurrent /\ [][NextConcurrent]_vars

\* Whatever the warm-up thread is doing, the request can take its next step.
RequestCanProceed ==
    /\ rpc = "idle" /\ loaded => \A p \in HistoryPayloads : ENABLED Receive(p)
    /\ rpc = "await_connect" =>
        /\ \A exc \in ConnectFailures : ENABLED PostFails(exc)
        /\ req.stream => ENABLED PostStreams
        /\ ~req.stream => \A b \in RawBodies : ENABLED PostBuffered(b)
    /\ rpc = "streaming" =>
        /\ ENABLED UpstreamCloses
        /\ ENABLED UpstreamDrops
        /\ Len(lines) < MaxLines => \A l \in ConcurrentLines : ENABLED ReadLine(l)
    /\ rpc \in Terminal => ENABLED Finish

\* The response a payload and a behaviour of the runtime give when nothing
\* else is looked at.
ResponseAlone ==
    /\ payload # NoPayload =>
        LET r == Generate(payload, default_num_predict)
        IN  /\ status = r.status
            /\ req = r.req
            /\ rpc = (CASE r.kind = "reject" -> "rejected"
                         [] r.kind = "crash" -> "crashed"
                         [] OTHER -> "await_connect")
            /\ out = IF r.kind = "reject" THEN <<Chunk(ErrorObject(r.error), 0)>> ELSE <<>>
    /\ calls > 0 =>
        /\ status = 200
        /\ out = (IF rpc = "closed" THEN <<Chunk(RawText(RespText(answer)), 0)>>
                  ELSE [i \in 1..Len(lines) |-> Chunk(MessageOf(lines[i]), i)])
                 \o (IF fault # "" THEN <<Chunk(ErrorObject(fault), 0)>> ELSE <<>>)

\* A step of the thread changes nothing of the request, a step of the
\* request nothing of the thread.
ThreadAndRequestApart ==
    /\ thread_vars' # thread_vars => UNCHANGED relay_vars
    /\ relay_vars' # relay_vars => UNCHANGED thread_vars

C23_WitnessThreadDied ==
    /\ wpc = "died"
    /\ rpc = "closed"
    /\ status = 200

\* C24: after any add_task and delete_task, from an empty list or from a
\* loaded list with distinct ids, the ids of the tasks are pairwise distinct,
\* the counter is greater than every id in the list, and no task has the id
\* of a task that was deleted.
C24_TaskIdsDistinct ==
    /\ \A i, j \in 1..Len(tasks) : i # j => tasks[i].id # tasks[j].id
    /\ \A i \in 1..Len(tasks) : tasks[i].id < task_counter
    /\ \A i \in 1..Len(tasks) : tasks[i].id \notin deleted
    /\ \A d \in deleted : d < task_counter

\* Tasks were deleted, the one with the largest id among them, and tasks
\* were added afterwards.
C24_Witness ==
    /\ Len(tasks) = 2
    /\ deleted # {}
    /\ \E i \in 1..Len(tasks) : \A d \in deleted : tasks[i].id > d
    /\ \E i \in 1..Len(tasks) : \E d \in deleted : tasks[i].id < d

\* A step leaves a task's agent alone, and changes its status only from
\* Pending to In Progress when it was start_agent of the task's agent, or
\* from In Progress to Stopped when it was stop_agent of the task's agent.
StatusStep ==
    \A i \in 1..Len(tasks), j \in 1..Len(tasks') :
        tasks'[j].id = tasks[i].id =>
            /\ tasks'[j].agent = tasks[i].agent
            /\ tasks'[j].status # tasks[i].status =>
                \/ /\ tasks[i].status = "Pending"
                   /\ tasks'[j].status = "In Progress"
                   /\ op' = Op("start", tasks[i].agent)
                \/ /\ tasks[i].status = "In Progress"
                   /\ tasks'[j].status = "Stopped"
                   /\ op' = Op("stop", tasks[i].agent)

RunningIsLastOp ==
    \A a \in AgentNames :
        /\ last_op[a] = "start" => running[a]
        /\ last_op[a] = "stop" => ~running[a]

\* C25: under any start_agent and stop_agent, a task's status changes only
\* Pending -> In Progress, by start_agent of its own agent, and
\* In Progress -> Stopped, by stop_agent of its own agent; Stopped is never
\* left, the tasks of other agents stay as they are, and an agent's running
\* flag is true exactly when the last operation on it was a start.
C25_TaskStatusTransitions ==
    [][StatusStep]_vars /\ []RunningIsLastOp

\* An agent stopped and started again: its task stays Stopped, the task it
\* was given since is In Progress, and the other agent's task is Pending.
C25_Witness ==
    /\ last_op["Researcher-1"] = "start"
    /\ running["Researcher-1"]
    /\ \E i, j, k \in 1..Len(tasks) :
        /\ tasks[i] = Task(1, "Researcher-1", "Stopped")
        /\ tasks[j].agent = "Researcher-1" /\ tasks[j].status = "In Progress"
        /\ tasks[k].agent = "Researcher-2" /\ tasks[k].status = "Pending"

====
